---- MODULE Spec2Model ----
(***************************************************************************)
(* The logging pipeline of "Django and DRF (AI)/test.py": LoggingSystem    *)
(* (the router: it installs four handlers on the root logger),             *)
(* JSONFormatter, log_with_context, and the handlers it installs           *)
(* (StreamHandler, RotatingFileHandler) with the behaviour the CPython     *)
(* 3.11 logging package gives them.  Sizes are counted in MiB.             *)
(***************************************************************************)
EXTENDS Integers, Sequences, FiniteSets, TLC

VARIABLES
  handlers,   \* root_logger.handlers: sequence of [kind, app]
  files,      \* the log directory: [app -> [kind -> file record]]
  console,    \* sys.stdout: [lines, partial, bad]
  orphans,    \* open streams of handlers no longer installed, not yet finalized
  appName,    \* app_name of the most recent LoggingSystem(...) call
  initialized,\* whether that call returned (FALSE: it raised)
  last,       \* what the most recent call did (see NoCall)
  nInits,     \* calls of LoggingSystem(...) after the first
  nEmits,     \* logging calls made
  pc,         \* per thread: where it is inside Logger.callHandlers
  idx,        \* per thread: index of the handler it is at
  cur,        \* per thread: the record it is emitting
  lock,       \* per handler kind: the thread holding Handler.lock (0: free)
  started     \* per severity: logging calls begun by the threads

vars == <<handlers, files, console, orphans, appName, initialized, last, nInits,
          nEmits, pc, idx, cur, lock, started>>

routerVars == <<handlers, files, console, orphans, appName, initialized, last,
                nInits, nEmits>>
threadVars == <<pc, idx, cur, lock, started>>

-----------------------------------------------------------------------------
\* Bounds of the model.
MaxInits == 2
MaxRouterEmits == 1
MaxEmits == 2
MaxMsgLen == 5
MaxCtxEmits == 1
MaxConcEmits == 2

Apps == {"A", "B"}
LoggerNames == {"database", "api"}
MsgLens == {1, MaxMsgLen}
Threads == {1, 2}

-----------------------------------------------------------------------------
\* Severities (logging.DEBUG .. logging.CRITICAL) and the handler table.
LevelNo == [DEBUG |-> 10, INFO |-> 20, WARNING |-> 30, ERROR |-> 40, CRITICAL |-> 50]
Severities == DOMAIN LevelNo

Kinds == <<"console", "file", "json", "error">>
KindSet == {Kinds[i] : i \in 1..Len(Kinds)}
FileKinds == {"file", "json", "error"}

\* root_logger.setLevel(logging.DEBUG)
RootLevel == LevelNo["DEBUG"]

\* handler.setLevel(...) of each of the four handlers
HandlerLevel(kind) ==
  CASE kind = "console" -> LevelNo["INFO"]
    [] kind = "file"    -> LevelNo["DEBUG"]
    [] kind = "json"    -> LevelNo["INFO"]
    [] kind = "error"   -> LevelNo["ERROR"]

\* maxBytes of the three RotatingFileHandlers, in MiB
FileMaxBytes == 10
JsonMaxBytes == 10
ErrorMaxBytes == 5
MaxBytes(kind) ==
  CASE kind = "file"  -> FileMaxBytes
    [] kind = "json"  -> JsonMaxBytes
    [] kind = "error" -> ErrorMaxBytes

\* backupCount of the three RotatingFileHandlers
FileBackupCount == 5
JsonBackupCount == 5
ErrorBackupCount == 3
BackupCount(kind) ==
  CASE kind = "file"  -> FileBackupCount
    [] kind = "json"  -> JsonBackupCount
    [] kind = "error" -> ErrorBackupCount

\* setFormatter(...): console_formatter and file_formatter are line formatters
Formatter(kind) == IF kind = "json" THEN "JSONFormatter" ELSE "Formatter"

-----------------------------------------------------------------------------
\* Files.  A file record: exists, size (MiB) and lines of the active file,
\* backups = the line counts of <base>.1, <base>.2, ...; dropped = lines that
\* left with a deleted oldest backup; partial = the thread whose line is half
\* written (0: none); bad = lines spoiled by another writer's bytes; prior =
\* the lines that were there when the process started.
NoFile == [exists |-> FALSE, size |-> 0, lines |-> 0, backups |-> <<>>,
           dropped |-> 0, partial |-> 0, bad |-> 0, prior |-> 0]

\* open(baseFilename, 'a'): creates the file when absent, keeps its content
OpenAppend(f) == [f EXCEPT !.exists = TRUE]

TotalLines(f) ==
  LET RECURSIVE Sum(_)
      Sum(s) == IF s = <<>> THEN 0 ELSE Head(s) + Sum(Tail(s))
  IN  f.lines + Sum(f.backups) + f.dropped


-----------------------------------------------------------------------------
\* RotatingFileHandler.

\* shouldRollover: self.stream.tell() + len(msg) >= self.maxBytes
ShouldRollover(f, kind, n) == f.size + n >= MaxBytes(kind)

\* The first half of doRollover without the limit of backupCount: every
\* backup moves up and none is overwritten.
RolloverRenameKeepAll(f, kind) ==
  IF ~f.exists THEN f
  ELSE [f EXCEPT !.exists = FALSE, !.size = 0, !.lines = 0,
                 !.backups = <<f.lines>> \o f.backups,
                 !.partial = 0,
                 !.bad = @ + (IF f.partial # 0 THEN 1 ELSE 0)]

\* doRollover, first half: close the stream, move <base>.i to <base>.(i+1) for
\* i = backupCount-1 .. 1 (the old <base>.backupCount is overwritten), then
\* rename <base> to <base>.1.  A line half written at that moment is cut.
RolloverRename(f, kind) ==
  LET shifted == <<f.lines>> \o f.backups
      keep    == BackupCount(kind)
      over    == Len(shifted) > keep
  IN  IF ~f.exists THEN f
      ELSE [f EXCEPT !.exists = FALSE, !.size = 0, !.lines = 0,
                     !.backups = IF over THEN SubSeq(shifted, 1, keep) ELSE shifted,
                     !.dropped = @ + (IF over THEN shifted[keep + 1] ELSE 0),
                     !.partial = 0,
                     !.bad = @ + (IF f.partial # 0 THEN 1 ELSE 0)]

\* doRollover, second half: self.stream = self._open()
RolloverReopen(f) == OpenAppend(f)

DoRollover(f, kind) == RolloverReopen(RolloverRename(f, kind))

\* StreamHandler.emit: stream.write(msg + terminator) starts putting the n MiB
\* of thread t's text into the stream (FileHandler.emit opens it when closed) ...
WriteHead(f, t, n) ==
  [f EXCEPT !.exists = TRUE, !.size = @ + n, !.partial = t,
            !.bad = @ + (IF f.partial # 0 THEN 1 ELSE 0)]

\* ... and self.flush() completes it: nl whole lines are now in the stream.
WriteTail(f, t, nl) ==
  IF f.partial = t THEN [f EXCEPT !.lines = @ + nl, !.partial = 0]
  ELSE [f EXCEPT !.bad = @ + 1]

-----------------------------------------------------------------------------
\* LogRecord and the formatters.
None == "None"

\* bool(v) for the values used here: None, "" and {} are false
Truthy(v) == v \notin {None, "", "{}"}

NoExtra == [k \in {} |-> None]

\* Logger.makeRecord: every key of `extra` becomes an attribute of the record
MakeRecord(name, sev, n, exc, extra) ==
  [name |-> name, sev |-> sev, len |-> n, exc_info |-> exc, extra |-> extra]

NoRecord == MakeRecord(None, "DEBUG", 0, FALSE, NoExtra)

\* json.dumps raises TypeError on a value it cannot serialize (no default=)
Serializable(v) == v # "dict_with_object"

BaseKeys == {"timestamp", "level", "logger", "message", "module", "function", "line"}

NoEntry == [k \in {} |-> None]

\* JSONFormatter.format: the log_entry, and whether json.dumps raised
JSONFormat(rec) ==
  LET ctx   == {k \in {"user_id", "request_id", "extra_data"} : k \in DOMAIN rec.extra}
      keys  == BaseKeys \cup (IF rec.exc_info THEN {"exception"} ELSE {}) \cup ctx
      entry == [k \in keys |->
                  CASE k = "level"  -> rec.sev
                    [] k = "logger" -> rec.name
                    [] k \in ctx    -> rec.extra[k]
                    [] OTHER        -> "text"]
      bad   == \E k \in keys : ~Serializable(entry[k])
  IN  [raised |-> bad, lines |-> 1, len |-> rec.len,
       entry |-> IF bad THEN NoEntry ELSE entry]

\* logging.Formatter.format: the % line; the traceback text follows on lines
\* of its own when the record has exc_info
LineFormat(rec) ==
  [raised |-> FALSE, lines |-> IF rec.exc_info THEN 2 ELSE 1, len |-> rec.len,
   entry |-> NoEntry]

Format(kind, rec) ==
  IF Formatter(kind) = "JSONFormatter" THEN JSONFormat(rec) ELSE LineFormat(rec)

-----------------------------------------------------------------------------
\* Handler.emit of the four handlers, as one step of thread t.  ioFail: the
\* stream's write raises OSError.  Both emits end in
\* "except Exception: self.handleError(record)", which reports on stderr and
\* returns: nothing escapes (raised = FALSE).
StreamEmit(dest, kind, rec, t, ioFail) ==
  LET fmt == Format(kind, rec)
  IN  IF fmt.raised \/ ioFail
      THEN [dest |-> dest, wrote |-> 0, failed |-> TRUE, raised |-> FALSE,
            rolled |-> FALSE, entry |-> NoEntry]
      ELSE [dest |-> WriteTail(WriteHead(dest, t, 0), t, fmt.lines),
            wrote |-> fmt.lines, failed |-> FALSE, raised |-> FALSE,
            rolled |-> FALSE, entry |-> NoEntry]

RotatingEmit(dest, kind, rec, t, ioFail) ==
  LET fmt == Format(kind, rec)
  IN  IF fmt.raised
      THEN [dest |-> dest, wrote |-> 0, failed |-> TRUE, raised |-> FALSE,
            rolled |-> FALSE, entry |-> NoEntry]
      ELSE LET roll == ShouldRollover(dest, kind, fmt.len)
               d1   == IF roll THEN DoRollover(dest, kind) ELSE dest
           IN  IF ioFail
               THEN [dest |-> d1, wrote |-> 0, failed |-> TRUE, raised |-> FALSE,
                     rolled |-> roll, entry |-> NoEntry]
               ELSE [dest |-> WriteTail(WriteHead(d1, t, fmt.len), t, fmt.lines),
                     wrote |-> fmt.lines, failed |-> FALSE, raised |-> FALSE,
                     rolled |-> roll, entry |-> fmt.entry]


\* The same with the try/except of Handler.emit left out: the error escapes.
HandlerEmitNoCatch(dest, kind, rec, t, ioFail) ==
  LET r == IF kind = "console" THEN StreamEmit(dest, kind, rec, t, ioFail)
           ELSE RotatingEmit(dest, kind, rec, t, ioFail)
  IN  [r EXCEPT !.raised = r.failed]

HandlerEmit(dest, kind, rec, t, ioFail) ==
  IF kind = "console" THEN StreamEmit(dest, kind, rec, t, ioFail)
  ELSE RotatingEmit(dest, kind, rec, t, ioFail)

-----------------------------------------------------------------------------
\* Logger.callHandlers: the record goes to every handler of the root logger
\* (named loggers have no handlers and propagate) whose level it reaches.
Dest(fs, con, h) == IF h.kind = "console" THEN con ELSE fs[h.app][h.kind]

NoneAppended == [k \in KindSet |-> 0]

Fanout0(fs, con) ==
  [files |-> fs, console |-> con, appended |-> NoneAppended, failed |-> {},
   rolled |-> {}, raised |-> FALSE, entry |-> NoEntry]

Deliver(st, h, rec, t, failing) ==
  IF LevelNo[rec.sev] < HandlerLevel(h.kind) THEN st
  ELSE LET r == HandlerEmit(Dest(st.files, st.console, h), h.kind, rec, t,
                            h.kind \in failing)
       IN  [files    |-> IF h.kind = "console" THEN st.files
                         ELSE [st.files EXCEPT ![h.app][h.kind] = r.dest],
            console  |-> IF h.kind = "console" THEN r.dest ELSE st.console,
            appended |-> [st.appended EXCEPT ![h.kind] = @ + r.wrote],
            failed   |-> st.failed \cup (IF r.failed THEN {h.kind} ELSE {}),
            rolled   |-> st.rolled \cup (IF r.rolled THEN {h.kind} ELSE {}),
            raised   |-> r.raised,
            entry    |-> IF h.kind = "json" /\ ~r.failed THEN r.entry ELSE st.entry]

RECURSIVE CallHandlers(_, _, _, _, _, _)
CallHandlers(hs, i, st, rec, t, failing) ==
  IF i > Len(hs) \/ st.raised THEN st
  ELSE CallHandlers(hs, i + 1, Deliver(st, hs[i], rec, t, failing), rec, t, failing)

\* Logger.isEnabledFor: a named logger's effective level is the root's
IsEnabledFor(sev) == LevelNo[sev] >= RootLevel

\* Logger.debug/info/warning/error/critical(msg, extra=..., exc_info=...)
LoggerLog(hs, fs, con, rec, failing) ==
  IF IsEnabledFor(rec.sev) THEN CallHandlers(hs, 1, Fanout0(fs, con), rec, 1, failing)
  ELSE Fanout0(fs, con)

-----------------------------------------------------------------------------
\* What the most recent call did.
NoContext == [user_id |-> None, request_id |-> None, extra_data |-> None]

NoCall ==
  [op |-> "none", raised |-> FALSE, error |-> None, rec |-> NoRecord,
   level |-> None, supplied |-> NoContext, failing |-> {},
   appended |-> NoneAppended, failed |-> {}, rolled |-> {}, entry |-> NoEntry]

EmitOutcome(op, rec, level, supplied, failing, st) ==
  [op |-> op, raised |-> st.raised, error |-> IF st.raised THEN "OSError" ELSE None,
   rec |-> rec, level |-> level, supplied |-> supplied, failing |-> failing,
   appended |-> st.appended, failed |-> st.failed, rolled |-> st.rolled,
   entry |-> st.entry]

AllIdle == \A t \in Threads : pc[t] = "idle"

\* The environment: at most one destination's write fails during a call.
FailSets == {{}} \cup {{k} : k \in KindSet}

\* extra= as the callers of the named loggers pass it (DatabaseLogger,
\* SecurityLogger, app code): nothing, or an extra_data dict
\* logger.<severity>(message, extra=extra, exc_info=exc) on a named logger
LoggerCall(name, sev, n, exc, extra, failing) ==
  /\ AllIdle
  /\ LET rec == MakeRecord(name, sev, n, exc, extra)
         st  == LoggerLog(handlers, files, console, rec, failing)
     IN  /\ files' = st.files
         /\ console' = st.console
         /\ last' = EmitOutcome("emit", rec, None, NoContext, failing, st)
  /\ nEmits' = nEmits + 1
  /\ UNCHANGED <<handlers, orphans, appName, initialized, nInits>>
  /\ UNCHANGED threadVars


-----------------------------------------------------------------------------
\* LoggingSystem.log_with_context.
UserIds == {None, "", "user123"}
RequestIds == {None, "", "req456"}
ExtraDatas == {None, "{}", "dict", "dict_with_object"}
LevelNames == {"DEBUG", "info", "Warning", "ERROR", "critical", "FATAL",
               "exception", "log", "TRACE"}

\* str.lower()
Lower(s) ==
  CASE s = "DEBUG"   -> "debug"
    [] s = "Warning" -> "warning"
    [] s = "ERROR"   -> "error"
    [] s = "FATAL"   -> "fatal"
    [] s = "TRACE"   -> "trace"
    [] OTHER         -> s

\* getattr(logger, name)(message, extra=extra): the attribute of
\* logging.Logger the name finds and what calling it does
LoggerMethod(name) ==
  CASE name = "debug"     -> [error |-> None, sev |-> "DEBUG", exc |-> FALSE]
    [] name = "info"      -> [error |-> None, sev |-> "INFO", exc |-> FALSE]
    [] name = "warning"   -> [error |-> None, sev |-> "WARNING", exc |-> FALSE]
    [] name = "error"     -> [error |-> None, sev |-> "ERROR", exc |-> FALSE]
    [] name = "critical"  -> [error |-> None, sev |-> "CRITICAL", exc |-> FALSE]
    [] name = "fatal"     -> [error |-> None, sev |-> "CRITICAL", exc |-> FALSE]
    [] name = "exception" -> [error |-> None, sev |-> "ERROR", exc |-> TRUE]
    [] name = "log"       -> [error |-> "TypeError", sev |-> None, exc |-> FALSE]
    [] OTHER              -> [error |-> "AttributeError", sev |-> None, exc |-> FALSE]

\* extra = {}; if user_id: extra['user_id'] = user_id; ...
BuildExtra(user_id, request_id, extra_data) ==
  LET arg == [user_id |-> user_id, request_id |-> request_id, extra_data |-> extra_data]
  IN  [k \in {k \in DOMAIN arg : Truthy(arg[k])} |-> arg[k]]

LogWithContext(name, level, n, user_id, request_id, extra_data, failing) ==
  /\ AllIdle
  /\ LET extra    == BuildExtra(user_id, request_id, extra_data)
         supplied == [user_id |-> user_id, request_id |-> request_id,
                      extra_data |-> extra_data]
         m        == LoggerMethod(Lower(level))
     IN  IF m.error # None
         THEN /\ last' = [NoCall EXCEPT !.op = "log_with_context", !.raised = TRUE,
                                        !.error = m.error, !.level = level,
                                        !.supplied = supplied]
              /\ UNCHANGED <<files, console>>
         ELSE LET rec == MakeRecord(name, m.sev, n, m.exc, extra)
                  st  == LoggerLog(handlers, files, console, rec, failing)
              IN  /\ files' = st.files
                  /\ console' = st.console
                  /\ last' = EmitOutcome("log_with_context", rec, level, supplied,
                                         failing, st)
  /\ nEmits' = nEmits + 1
  /\ UNCHANGED <<handlers, orphans, appName, initialized, nInits>>
  /\ UNCHANGED threadVars

-----------------------------------------------------------------------------
\* LoggingSystem.__init__ and _setup_handlers.
FailPoints == {"none", "mkdir", "file", "json", "error"}

\* self.root_logger.handlers.clear(), without it
KeepHandlers(hs) == hs

ClearHandlers(hs) == <<>>

\* _setup_handlers: addHandler in the order console, file, json, error; the
\* constructor of a RotatingFileHandler opens its file and raises when it cannot
SetupHandlers(hs, app, failAt) ==
  LET upto == CASE failAt = "file"  -> 1
                [] failAt = "json"  -> 2
                [] failAt = "error" -> 3
                [] OTHER            -> 4
  IN  hs \o [i \in 1..upto |-> [kind |-> Kinds[i], app |-> app]]

\* open streams of the file handlers in hs
OpenStreams(hs) == Cardinality({i \in DOMAIN hs : hs[i].kind \in FileKinds})

\* LoggingSystem(app): failAt is where the filesystem refuses (mkdir, or the
\* open of one of the three files); promptly: the runtime finalizes the
\* handlers dropped by clear() at once (reference counting) or leaves them to
\* a later collection.  Nothing in __init__ closes them.
Initialize(app, failAt, promptly) ==
  /\ AllIdle
  /\ nInits < MaxInits
  /\ nInits' = nInits + 1
  /\ appName' = app
  /\ initialized' = (failAt = "none")
  /\ last' = [NoCall EXCEPT !.op = "init", !.raised = (failAt # "none"),
                            !.error = IF failAt = "none" THEN None ELSE "OSError"]
  /\ IF failAt = "mkdir"
     THEN UNCHANGED <<handlers, files, orphans>>
     ELSE LET hs == SetupHandlers(ClearHandlers(handlers), app, failAt)
          IN  /\ handlers' = hs
              /\ files' = [files EXCEPT ![app] =
                             [k \in FileKinds |->
                                IF \E i \in DOMAIN hs : hs[i] = [kind |-> k, app |-> app]
                                THEN OpenAppend(@[k]) ELSE @[k]]]
              /\ orphans' = IF promptly THEN orphans
                            ELSE orphans + OpenStreams(handlers)
                                 - OpenStreams(ClearHandlers(handlers))
  /\ UNCHANGED <<console, nEmits>>
  /\ UNCHANGED threadVars

\* The garbage collector finalizes the unreferenced handlers: their streams close.
Finalize ==
  /\ AllIdle
  /\ orphans > 0
  /\ orphans' = 0
  /\ UNCHANGED <<handlers, files, console, appName, initialized, last, nInits, nEmits>>
  /\ UNCHANGED threadVars

\* Log files the process holds open.
OpenHandles == OpenStreams(handlers) + orphans

-----------------------------------------------------------------------------
\* The log directory the process starts in: empty, or left by earlier runs
\* (the handlers append to what is there) with every file one 1 MiB line short
\* of its rollover and all its backups present.
UsedFile(kind) ==
  LET n == MaxBytes(kind) - 1
  IN  [NoFile EXCEPT !.exists = TRUE, !.size = n, !.lines = n,
                     !.backups = [i \in 1..BackupCount(kind) |-> n],
                     !.prior = n * (BackupCount(kind) + 1)]

PriorDirs ==
  {[a \in Apps |-> [k \in FileKinds |-> NoFile]],
   [a \in Apps |-> [k \in FileKinds |-> UsedFile(k)]]}

\* The state after the first LoggingSystem(app).
Init ==
  /\ \E app \in Apps, dir \in PriorDirs :
       /\ appName = app
       /\ handlers = SetupHandlers(<<>>, app, "none")
       /\ files = [dir EXCEPT ![app] = [k \in FileKinds |-> OpenAppend(@[k])]]
  /\ console = OpenAppend(NoFile)
  /\ initialized = TRUE
  /\ orphans = 0
  /\ last = [NoCall EXCEPT !.op = "init"]
  /\ nInits = 0
  /\ nEmits = 0
  /\ pc = [t \in Threads |-> "idle"]
  /\ idx = [t \in Threads |-> 0]
  /\ cur = [t \in Threads |-> NoRecord]
  /\ lock = [k \in KindSet |-> 0]
  /\ started = [v \in Severities |-> 0]

\* The router's life: initializations, finalization, and plain calls between.
Next ==
  \/ \E app \in Apps, failAt \in FailPoints, promptly \in BOOLEAN :
       Initialize(app, failAt, promptly)
  \/ Finalize
  \/ /\ nEmits < MaxRouterEmits
     /\ \E name \in LoggerNames, sev \in Severities :
          LoggerCall(name, sev, 1, FALSE, NoExtra, {})

Spec == Init /\ [][Next]_vars

\* Calls on a named logger after the first initialization: every severity,
\* short and long messages, serializable or not, each destination failing
\* or none.
Troubles ==
  {[failing |-> f, extra |-> [k \in {"extra_data"} |-> "dict"]] : f \in FailSets}
  \cup {[failing |-> f, extra |-> [k \in {"extra_data"} |-> "dict_with_object"]] :
          f \in {{}, {"file"}}}

EmitNext ==
  /\ nEmits < MaxEmits
  /\ \E sev \in Severities, n \in MsgLens, c \in Troubles :
       LoggerCall("database", sev, n, FALSE, c.extra, c.failing)

EmitSpec == Init /\ [][EmitNext]_vars

\* Calls of log_with_context after the first initialization.
CtxNext ==
  /\ nEmits < MaxCtxEmits
  /\ \E name \in LoggerNames, level \in LevelNames, user_id \in UserIds,
        request_id \in RequestIds, extra_data \in ExtraDatas :
       LogWithContext(name, level, 1, user_id, request_id, extra_data, {})

CtxSpec == Init /\ [][CtxNext]_vars


-----------------------------------------------------------------------------
\* Threads logging at the same time.  One logging call is Logger.handle ->
\* callHandlers: for each handler the record's level reaches, Handler.handle
\* does acquire(); emit(record); release().  emit is taken apart into the
\* rollover test, the two halves of doRollover, write and flush.

\* the next handler at or after i whose level the record reaches (0: none)
RECURSIVE NextHandler(_, _, _)
NextHandler(hs, i, rec) ==
  IF i > Len(hs) THEN 0
  ELSE IF LevelNo[rec.sev] >= HandlerLevel(hs[i].kind) THEN i
  ELSE NextHandler(hs, i + 1, rec)

At(t) == handlers[idx[t]]

SetDest(h, d) ==
  IF h.kind = "console" THEN console' = d /\ UNCHANGED files
  ELSE files' = [files EXCEPT ![h.app][h.kind] = d] /\ UNCHANGED console

\* logger.<severity>(message) begins on thread t
Start(t, sev, n) ==
  /\ pc[t] = "idle"
  /\ LET rec == MakeRecord("api", sev, n, FALSE, NoExtra)
         i   == IF IsEnabledFor(sev) THEN NextHandler(handlers, 1, rec) ELSE 0
     IN  /\ cur' = [cur EXCEPT ![t] = rec]
         /\ idx' = [idx EXCEPT ![t] = i]
         /\ pc' = [pc EXCEPT ![t] = IF i = 0 THEN "idle" ELSE "acquire"]
  /\ started' = [started EXCEPT ![sev] = @ + 1]
  /\ nEmits' = nEmits + 1
  /\ UNCHANGED <<handlers, files, console, orphans, appName, initialized, last, nInits, lock>>

\* Handler.acquire() that does not wait for the lock
AcquireUnguarded(t) ==
  /\ pc[t] = "acquire"
  /\ lock' = [lock EXCEPT ![At(t).kind] = t]
  /\ pc' = [pc EXCEPT ![t] = IF At(t).kind = "console" THEN "write" ELSE "check"]
  /\ UNCHANGED <<idx, cur, started>>
  /\ UNCHANGED routerVars

\* Handler.acquire(): self.lock.acquire()
Acquire(t) ==
  /\ pc[t] = "acquire"
  /\ lock[At(t).kind] = 0
  /\ lock' = [lock EXCEPT ![At(t).kind] = t]
  /\ pc' = [pc EXCEPT ![t] = IF At(t).kind = "console" THEN "write" ELSE "check"]
  /\ UNCHANGED <<idx, cur, started>>
  /\ UNCHANGED routerVars

\* RotatingFileHandler.emit: if self.shouldRollover(record)
Check(t) ==
  /\ pc[t] = "check"
  /\ LET h   == At(t)
         fmt == Format(h.kind, cur[t])
     IN  pc' = [pc EXCEPT ![t] =
                  IF ShouldRollover(Dest(files, console, h), h.kind, fmt.len)
                  THEN "rename" ELSE "write"]
  /\ UNCHANGED <<idx, cur, lock, started>>
  /\ UNCHANGED routerVars

\* doRollover: close, shift the backups, rename the active file
Rename(t) ==
  /\ pc[t] = "rename"
  /\ SetDest(At(t), RolloverRename(Dest(files, console, At(t)), At(t).kind))
  /\ pc' = [pc EXCEPT ![t] = "reopen"]
  /\ UNCHANGED <<idx, cur, lock, started>>
  /\ UNCHANGED <<handlers, orphans, appName, initialized, last, nInits, nEmits>>

\* doRollover: open the fresh active file
Reopen(t) ==
  /\ pc[t] = "reopen"
  /\ SetDest(At(t), RolloverReopen(Dest(files, console, At(t))))
  /\ pc' = [pc EXCEPT ![t] = "write"]
  /\ UNCHANGED <<idx, cur, lock, started>>
  /\ UNCHANGED <<handlers, orphans, appName, initialized, last, nInits, nEmits>>

\* StreamHandler.emit: stream.write(msg + self.terminator)
Write(t) ==
  /\ pc[t] = "write"
  /\ LET h   == At(t)
         fmt == Format(h.kind, cur[t])
     IN  SetDest(h, WriteHead(Dest(files, console, h), t,
                              IF h.kind = "console" THEN 0 ELSE fmt.len))
  /\ pc' = [pc EXCEPT ![t] = "flush"]
  /\ UNCHANGED <<idx, cur, lock, started>>
  /\ UNCHANGED <<handlers, orphans, appName, initialized, last, nInits, nEmits>>

\* StreamHandler.emit: self.flush()
Flush(t) ==
  /\ pc[t] = "flush"
  /\ LET h   == At(t)
         fmt == Format(h.kind, cur[t])
     IN  SetDest(h, WriteTail(Dest(files, console, h), t, fmt.lines))
  /\ pc' = [pc EXCEPT ![t] = "release"]
  /\ UNCHANGED <<idx, cur, lock, started>>
  /\ UNCHANGED <<handlers, orphans, appName, initialized, last, nInits, nEmits>>

\* Handler.release(), and callHandlers goes on to the next handler
Release(t) ==
  /\ pc[t] = "release"
  /\ lock' = [lock EXCEPT ![At(t).kind] = 0]
  /\ LET i == NextHandler(handlers, idx[t] + 1, cur[t])
     IN  /\ idx' = [idx EXCEPT ![t] = i]
         /\ pc' = [pc EXCEPT ![t] = IF i = 0 THEN "idle" ELSE "acquire"]
  /\ UNCHANGED <<cur, started>>
  /\ UNCHANGED routerVars

ConcNext ==
  \/ /\ nEmits < MaxConcEmits
     /\ \E t \in Threads, sev \in Severities, n \in MsgLens : Start(t, sev, n)
  \/ \E t \in Threads : Acquire(t)
  \/ \E t \in Threads : Check(t)
  \/ \E t \in Threads : Rename(t)
  \/ \E t \in Threads : Reopen(t)
  \/ \E t \in Threads : Write(t)
  \/ \E t \in Threads : Flush(t)
  \/ \E t \in Threads : Release(t)

ConcSpec == Init /\ [][ConcNext]_vars


-----------------------------------------------------------------------------
\* Properties.

\* A step that is one logging call.
IsCall == nEmits' # nEmits

Reaches(sev, kind) == LevelNo[sev] >= HandlerLevel(kind)

FiveNames == {"debug", "info", "warning", "error", "critical"}

ContextKeys == {"user_id", "request_id", "extra_data"}

\* The handlers that could not take the record of call c: their destination's
\* write failed, or their formatter raised.
FailedSinks(c) == c.failing \cup {k \in KindSet : Format(k, c.rec).raised}

\* C1: every emit of an event with severity S from a named logger, with every
\* destination healthy, leaves the destination of each installed sink whose
\* min_severity is above S unchanged and appends exactly one line to the
\* destination of each installed sink whose min_severity is at or below S.
C1_OneLinePerPassingSink ==
  [][(IsCall /\ last'.failing = {}) =>
       \A i \in DOMAIN handlers :
         LET h      == handlers[i]
             before == Dest(files, console, h)
             after  == Dest(files', console', h)
         IN  IF Reaches(last'.rec.sev, h.kind)
             THEN TotalLines(after) = TotalLines(before) + 1
             ELSE after = before]_vars

\* The two parts of C2: the installed sinks, and one emit's effect.
C2_FourSinks ==
  initialized =>
    /\ Len(handlers) = 4
    /\ \A i \in 1..4 : handlers[i] = [kind |-> Kinds[i], app |-> appName]

C2_NoDuplicates ==
  (IsCall /\ initialized) =>
    /\ TotalLines(console') <= TotalLines(console) + 1
    /\ \A a \in Apps, k \in FileKinds :
         IF a = appName
         THEN TotalLines(files'[a][k]) <= TotalLines(files[a][k]) + 1
         ELSE files'[a][k] = files[a][k]

\* C2: whenever the most recent initialization returned, whatever came before
\* it, the router holds exactly the four sinks console, plain file, structured
\* file, error file, in that order, each wired to the most recent app_name;
\* and a single emit then appends at most one line to any destination and
\* nothing to the files of another app_name.
C2_IdempotentInit == []C2_FourSinks /\ [][C2_NoDuplicates]_vars

\* C2's case: two initializations after the first, then an ERROR record that
\* reached all four sinks once each.
C2_Witness ==
  /\ nInits >= 2
  /\ initialized
  /\ last.op = "emit"
  /\ last.rec.sev = "ERROR"
  /\ \A k \in KindSet : last.appended[k] = 1

\* C3: after any number of initializations the process holds three log files
\* open: the streams of the handlers an initialization replaced are closed.
C3_NoLeakedStreams == initialized => OpenHandles = 3

\* C4: in a structured line written for a log_with_context call, each of
\* user_id, request_id, extra_data is a key exactly when the caller supplied
\* that argument (also when it is "" or {}), and never with a null value.
C4_KeysIffSupplied ==
  (last.op = "log_with_context" /\ last.appended["json"] = 1) =>
    \A k \in ContextKeys :
      /\ (k \in DOMAIN last.entry) <=> (last.supplied[k] # None)
      /\ (k \in DOMAIN last.entry) => last.entry[k] # None

\* C5: a log_with_context call at INFO or above whose extra_data holds a value
\* json cannot serialize still gets its complete structured line: the
\* formatter does not raise and the line carries extra_data.
C5_UnserializableStillLogged ==
  (/\ last.op = "log_with_context"
   /\ last.error = None
   /\ Reaches(last.rec.sev, "json")
   /\ last.supplied.extra_data = "dict_with_object") =>
    /\ "json" \notin last.failed
    /\ last.appended["json"] = 1
    /\ "extra_data" \in DOMAIN last.entry

\* C6: a log_with_context call whose level name is not one of DEBUG, INFO,
\* WARNING, ERROR, CRITICAL (in any case) raises to the caller and delivers
\* nothing to any sink.
C6_UnknownLevelRejected ==
  (last.op = "log_with_context" /\ Lower(last.level) \notin FiveNames) =>
    /\ last.raised
    /\ last.error # None
    /\ last.appended = NoneAppended

\* One logging call during which a sink fails (C7).
C7_Step ==
  (IsCall /\ FailedSinks(last') # {}) =>
    /\ ~last'.raised
    /\ \A i \in DOMAIN handlers :
         LET h == handlers[i]
         IN  (Reaches(last'.rec.sev, h.kind) /\ h.kind \notin FailedSinks(last')) =>
               TotalLines(Dest(files', console', h))
                 = TotalLines(Dest(files, console, h)) + Format(h.kind, last'.rec).lines

\* C7: when a sink cannot take a record (its write fails, or its formatter
\* raises), every other installed sink whose level the record reaches still
\* gets it, wherever the failing sink stands in the order, and the logging
\* call does not raise.
C7_FailureIsolated == [][C7_Step]_vars

\* C7's case: the first sink in the order failed on an ERROR record and the
\* three after it each got their line.
C7_Witness ==
  /\ last.op = "emit"
  /\ last.failing = {"console"}
  /\ last.rec.sev = "ERROR"
  /\ last.appended["console"] = 0
  /\ \A k \in FileKinds : last.appended[k] = 1

\* The two parts of C8: the files kept, and one logging call's effect.
C8_FilesKept ==
  \A a \in Apps, k \in FileKinds : Len(files[a][k].backups) <= BackupCount(k)

C8_Step ==
  IsCall =>
    /\ \A i \in DOMAIN handlers :
         LET h      == handlers[i]
             before == Dest(files, console, h)
             after  == Dest(files', console', h)
             fmt    == Format(h.kind, last'.rec)
         IN  (/\ h.kind \in FileKinds
              /\ Reaches(last'.rec.sev, h.kind)
              /\ h.kind \notin FailedSinks(last')
              /\ before.size + fmt.len > MaxBytes(h.kind)) =>
               /\ after.size = fmt.len
               /\ after.lines = fmt.lines
               /\ Head(after.backups) = before.lines
               /\ TotalLines(after) = TotalLines(before) + fmt.lines
    /\ \A a \in Apps, k \in FileKinds :
         LET before == files[a][k]
             after  == files'[a][k]
             fmt    == Format(k, last'.rec)
         IN  /\ after # before =>
                  /\ \E i \in DOMAIN handlers : handlers[i] = [kind |-> k, app |-> a]
                  /\ Reaches(last'.rec.sev, k)
             /\ (after.backups # before.backups \/ after.dropped # before.dropped) =>
                  before.size + fmt.len >= MaxBytes(k)

\* C8: a rotating sink never keeps more than backup_count + 1 files; a record
\* whose line would take the active file over max_bytes makes the sink rotate
\* first and is then the only content of the new active file, the former
\* content being <base>.1 and no line lost but those of the deleted oldest
\* backup; and a sink's files change only by its own record and rotate only
\* on its own size.
C8_Rotation == []C8_FilesKept /\ [][C8_Step]_vars

\* C8's case: the first record, a long one, found the plain file one line
\* short of max_bytes with all its backups: the sink rotated, deleted the
\* oldest backup and holds the record alone in the new active file.
C8_Witness ==
  /\ nEmits = 1
  /\ last.op = "emit"
  /\ "file" \in last.rolled
  /\ last.rec.len = MaxMsgLen
  /\ last.appended["file"] = 1
  /\ LET f == files[appName]["file"]
     IN  /\ f.lines = 1
         /\ f.size = MaxMsgLen
         /\ f.dropped > 0
         /\ Len(f.backups) = BackupCount("file")

\* Thread t is inside Handler.emit; the lines sink kind is due (C9).
InEmit(t) == pc[t] \in {"check", "rename", "reopen", "write", "flush", "release"}

Expected(kind) ==
  LET RECURSIVE Sum(_)
      Sum(S) == IF S = {} THEN 0
                ELSE LET v == CHOOSE x \in S : TRUE
                     IN  (IF Reaches(v, kind) THEN started[v] ELSE 0) + Sum(S \ {v})
  IN  Sum(Severities)

\* C9: the steps of one sink's emit (rollover test, rollover, write, flush)
\* are a critical section: no two threads are inside it for the same sink, no
\* line is spoiled or left half written by anyone but the thread inside, no
\* file is away (renamed, not yet reopened) but under the thread rotating it;
\* and when the N calls have returned every sink holds exactly one whole line
\* for each call whose severity reaches it.
C9_SinkCriticalSection ==
  /\ \A t, u \in Threads :
       (t # u /\ InEmit(t) /\ InEmit(u)) => At(t).kind # At(u).kind
  /\ \A i \in DOMAIN handlers :
       LET h == handlers[i]
           d == Dest(files, console, h)
       IN  /\ d.bad = 0
           /\ d.partial # 0 => (pc[d.partial] = "flush" /\ At(d.partial) = h)
           /\ ~d.exists => \E t \in Threads : pc[t] = "reopen" /\ At(t) = h
           /\ AllIdle => TotalLines(d) - d.prior = Expected(h.kind)

\* C9's case: thread 2 is in the middle of rotating the plain file while
\* thread 1 waits for that sink's lock with a record of its own.
C9_Witness ==
  /\ pc[2] = "reopen"
  /\ At(2).kind = "file"
  /\ pc[1] = "acquire"
  /\ idx[1] # 0
  /\ At(1).kind = "file"
  /\ lock["file"] = 2

\* C10: an initialization that could not create the directory or open a file
\* raised to its caller and left the router with none or all four of its
\* sinks, never some of them.
C10_NoPartialRouter ==
  /\ (last.op = "init" /\ last.error # None) => last.raised
  /\ ~initialized => Len(handlers) \in {0, 4}

====
